---- MODULE Spec2Model ----
(***************************************************************************)
(* ndmg: the functional pipeline driver (scripts/ndmg_func_pipeline.py)   *)
(* and the BIDS naming / data-transfer helpers (utils/bids_utils.py).      *)
(*                                                                         *)
(* Strings are sequences of atoms.  An atom is a piece of text that the    *)
(* code's patterns treat as a unit: the entity prefixes "sub-", "ses-",    *)
(* "run-", "res-", the separators "_", "." and "/", and plain chunks such  *)
(* as "01" or "bold".  The string a sequence stands for is the             *)
(* concatenation of its atoms; no concatenation of plain chunks forms a    *)
(* prefix or a separator, so the patterns act on atoms exactly as they act *)
(* on the characters.                                                      *)
(***************************************************************************)
EXTENDS Integers, Sequences, FiniteSets, TLC

\* ------------------------------------------------------------------ bounds
\* longest list of label files passed to the worker / add_dirs
MaxLabels == 2
\* number of method calls made on one name_resource after its construction
MaxCalls == 2

\* ------------------------------------------------------- python primitives
\* Python's None.  Strings are sequences of atoms; None is a one-atom
\* sequence whose atom occurs in no string.
None == <<"<None>">>

\* "{}".format(x): None is rendered as the text None
Format(x) == IF x = None THEN <<"None">> ELSE x

Min(S) == CHOOSE x \in S : \A y \in S : x <= y
Max(S) == CHOOSE x \in S : \A y \in S : x >= y

\* positions of atom a in s
Positions(s, a) == {i \in 1..Len(s) : s[i] = a}

\* os.path.basename(p): what follows the last "/"
Basename(p) ==
    LET sl == Positions(p, "/")
    IN IF sl = {} THEN p ELSE SubSeq(p, Max(sl) + 1, Len(p))

\* s.split('.')[0]: what precedes the first "."
BeforeDot(s) ==
    LET d == Positions(s, ".")
    IN IF d = {} THEN s ELSE SubSeq(s, 1, Min(d) - 1)

\* re.split(r'[._]', s)[0]: what precedes the first "." or "_"
BeforeDotOrUnderscore(s) ==
    LET d == Positions(s, ".") \cup Positions(s, "_")
    IN IF d = {} THEN s ELSE SubSeq(s, 1, Min(d) - 1)

\* re.search(r'(tok)(?!.*tok).*?(?=[_])', s): the match text, or None.
\* The negative lookahead admits only the last occurrence of tok as the
\* start; the lazy .*? then runs to just before the first "_" after it
\* ("." also matches "/"); with no "_" after it there is no match.
SearchEntity(tok, s) ==
    LET occ == Positions(s, tok)
    IN IF occ = {} THEN None
       ELSE LET i  == Max(occ)
                us == {j \in (i + 1)..Len(s) : s[j] = "_"}
            IN IF us = {} THEN None ELSE SubSeq(s, i, Min(us) - 1)

\* posixpath.join(a, b): b replaces a when b is absolute, is appended
\* directly when a is empty or ends with "/", else after a "/"
Join2(a, b) ==
    IF Len(b) > 0 /\ b[1] = "/" THEN b
    ELSE IF Len(a) = 0 \/ a[Len(a)] = "/" THEN a \o b
    ELSE a \o <<"/">> \o b

Join3(a, b, c) == Join2(Join2(a, b), c)

\* ---------------------------------------------------------- name_resource
\* the regex of __init__ for the subject finds nothing: .group() is called
\* on None and __init__ raises AttributeError
name_resource_raises(modf) == SearchEntity("sub-", modf) = None

\* name_resource._get_outdir: <basepath>/<sub>[/<ses>]
_get_outdir(basepath, sub, ses) ==
    IF ses # None THEN Join3(basepath, sub, ses) ELSE Join2(basepath, sub)

\* name_resource.__init__ (when it does not raise).  Every regex is applied
\* to the path as passed, not to its base name; dirs does not exist until
\* add_dirs sets it.
name_resource(modf, t1wf, tempf, opath) ==
    LET sub  == SearchEntity("sub-", modf)
        ses  == SearchEntity("ses-", modf)
        run  == SearchEntity("run-", modf)
        temp == BeforeDot(Basename(tempf))
    IN [subi     |-> BeforeDot(Basename(modf)),
        anati    |-> BeforeDot(Basename(t1wf)),
        sub      |-> sub,
        ses      |-> ses,
        run      |-> run,
        temp     |-> temp,
        space    |-> BeforeDotOrUnderscore(temp),
        res      |-> SearchEntity("res-", tempf),
        basepath |-> opath,
        outdir   |-> _get_outdir(opath, sub, ses),
        dirs     |-> None]

get_outdir(self) == self.outdir

\* get_label splitting the base name at "." only
get_label_dot_only(label) == <<"label-">> \o BeforeDot(Basename(label))

\* name_resource.get_label
get_label(label) == <<"label-">> \o BeforeDotOrUnderscore(Basename(label))

\* name_resource.get_template_space: "space-{}_res-{}"
get_template_space(self) ==
    <<"space-">> \o Format(self.space) \o <<"_", "res-">> \o Format(self.res)

name_derivative(folder, derivative) == Join2(folder, derivative)

get_mod_source(self) == self.subi

get_anat_source(self) == self.anati

\* the fields __init__ sets
Fields(self) == [k \in {"subi", "anati", "sub", "ses", "run", "temp", "space",
                        "res", "basepath", "outdir"} |-> self[k]]

\* ------------------------------------------------------ add_dirs, flatten
\* A labels argument is [list |-> whether it is a Python list, v |-> the
\* list of label paths, or the one label path when it is not a list].
\* `if not isinstance(labels, list): labels = [labels]`
AsLabelList(labels) == IF labels.list THEN labels.v ELSE <<labels.v>>

RECURSIVE Concat(_)
Concat(ss) == IF ss = <<>> THEN <<>> ELSE Head(ss) \o Concat(Tail(ss))

dirtypes == <<"output", "tmp", "qa">>

\* hash() of CPython 2.7 (64 bit, without hash randomization, which is how
\* the interpreter runs unless -R or PYTHONHASHSEED asks for it) for the
\* names used as dict keys, as the 13 base-32 digits of the unsigned value,
\* lowest first
str_hash(name) ==
    CASE name = "output"   -> <<25, 19, 11, 24, 18, 14, 16, 25, 18, 11, 18, 29, 8>>
      [] name = "tmp"      -> <<0, 21, 23, 1, 26, 9, 12, 12, 31, 30, 15, 22, 14>>
      [] name = "qa"       -> <<16, 3, 31, 1, 24, 20, 10, 0, 3, 27, 12, 0, 0>>
      [] name = "base"     -> <<19, 22, 12, 21, 24, 30, 27, 11, 24, 14, 19, 4, 1>>
      [] name = "prep_f"   -> <<28, 3, 2, 26, 27, 4, 9, 27, 16, 30, 25, 27, 11>>
      [] name = "prep_a"   -> <<27, 3, 2, 26, 27, 4, 9, 27, 16, 30, 25, 27, 11>>
      [] name = "reg_f"    -> <<12, 20, 13, 15, 1, 1, 17, 12, 9, 26, 0, 1, 10>>
      [] name = "reg_a"    -> <<11, 20, 13, 15, 1, 1, 17, 12, 9, 26, 0, 1, 10>>
      [] name = "nuis_f"   -> <<22, 29, 1, 22, 21, 1, 12, 11, 25, 6, 21, 6, 13>>
      [] name = "nuis_a"   -> <<17, 29, 1, 22, 21, 1, 12, 11, 25, 6, 21, 6, 13>>
      [] name = "ts_voxel" -> <<10, 30, 23, 23, 20, 21, 21, 23, 16, 28, 14, 27, 4>>
      [] name = "ts_roi"   -> <<6, 18, 25, 11, 28, 16, 28, 14, 30, 27, 26, 27, 15>>
      [] name = "conn"     -> <<30, 12, 9, 28, 2, 3, 7, 12, 26, 10, 29, 23, 4>>

\* the same for the label names get_label gives
label_hash(labname) ==
    CASE labname = <<"label-", "desikan">> ->
             <<29, 29, 4, 21, 13, 27, 21, 27, 11, 30, 0, 17, 15>>
      [] labname = <<"label-", "aal">> ->
             <<30, 12, 25, 11, 5, 21, 21, 27, 11, 9, 7, 15, 3>>

\* the k lowest bits (k <= 10) of a hash shifted right by 5 * n bits
HashBits(hd, n, k) ==
    LET digit(i) == IF i <= Len(hd) THEN hd[i] ELSE 0
    IN (digit(n + 1) + 32 * digit(n + 2)) % (2 ^ k)

\* A Python 2.7 dict as its table of 2^k slots: tab[i] is the position in
\* keys of the key held by slot i, 0 for a free slot; hs[x] is the hash of
\* keys[x].  Iterating a dict visits the slots in order.
DictNew(k) == [k |-> k, tab |-> [i \in 0..(2 ^ k - 1) |-> 0], fill |-> 0]

RECURSIVE DictProbe(_, _, _, _, _, _)
\* the probe sequence of key x from slot i on: the key goes to the first
\* free slot, and stays where it is when the dict holds it already
DictProbe(d, keys, hs, x, i, n) ==
    IF d.tab[i] = 0
    THEN [d EXCEPT !.tab[i] = x, !.fill = @ + 1]
    ELSE IF keys[d.tab[i]] = keys[x] THEN d
    ELSE DictProbe(d, keys, hs, x,
                   (5 * i + HashBits(hs[x], n, d.k) + 1) % (2 ^ d.k), n + 1)

DictPut(d, keys, hs, x) == DictProbe(d, keys, hs, x, HashBits(hs[x], 0, d.k), 0)

\* the keys of a dict in iteration order, as positions in keys
DictSlots(d) ==
    SelectSeq([i \in 1..(2 ^ d.k) |-> d.tab[i - 1]], LAMBDA x : x # 0)

RECURSIVE DictFill(_, _, _, _)
DictFill(d, keys, hs, xs) ==
    IF xs = <<>> THEN d
    ELSE DictFill(DictPut(d, keys, hs, Head(xs)), keys, hs, Tail(xs))

\* d[keys[x]] = value: the table grows to the first size above four times
\* the number of keys once a new key fills two thirds of it
DictSet(d, keys, hs, x) ==
    LET e == DictPut(d, keys, hs, x)
        k == Min({j \in 3..10 : 2 ^ j > 4 * e.fill})
    IN IF e.fill > d.fill /\ 3 * e.fill >= 2 * (2 ^ e.k)
       THEN DictFill(DictNew(k), keys, hs, DictSlots(e))
       ELSE e

RECURSIVE DictFrom(_, _, _, _)
\* dict d0 after keys[1..n] were assigned in order
DictFrom(d0, keys, hs, n) ==
    IF n = 0 THEN d0
    ELSE DictSet(DictFrom(d0, keys, hs, n - 1), keys, hs, n)

\* the dict after keys[1..n] were assigned, in order, to an empty dict {}
DictOf(keys, hs, n) == DictFrom(DictNew(3), keys, hs, n)

\* a dict display {k1: v1, ..., kn: vn}: the table is made for n items at
\* once when n > 5 (the first size above n), then the items are stored in
\* the order they are written
DictDisplay(keys, hs) ==
    LET n == Len(keys)
        k == IF n > 5 THEN Min({j \in 3..10 : 2 ^ j > n}) ELSE 3
    IN DictFrom(DictNew(k), keys, hs, n)

\* `for key in d` for the dict whose keys were assigned in the order of
\* keys: the positions in keys, in iteration order
dict_order(keys, hs) == DictSlots(DictOf(keys, hs, Len(keys)))

\* the dict self.dirs as the sequence of its leaves in iteration order, each
\* with the keys that lead to it: [dirt, kwd, lab, path], lab = None below a
\* key without label granularity.  paths is the sequence of the
\* <<kwd, path>> items of the dict display passed, in the order they are
\* written there.
DirsOf(self, paths, labels, label_dirs) ==
    LET L == AsLabelList(labels)
        labnames == [i \in 1..Len(L) |-> get_label(L[i])]
        laborder == dict_order(labnames,
                               [i \in 1..Len(L) |-> label_hash(labnames[i])])
        pkeys == [i \in 1..Len(paths) |-> paths[i][1]]
        \* paths.iteritems()
        items == DictSlots(DictDisplay(pkeys, [i \in 1..Len(paths) |->
                                                  str_hash(pkeys[i])]))
        \* the keys of self.dirs[dirt] in the order they are assigned
        kwds == <<"base">> \o [i \in 1..Len(items) |-> pkeys[items[i]]]
        kwdorder == dict_order(kwds, [i \in 1..Len(kwds) |-> str_hash(kwds[i])])
        typeorder == dict_order(dirtypes, [i \in 1..Len(dirtypes) |->
                                              str_hash(dirtypes[i])])
        addstr(dirt) == IF dirt = "output" THEN <<>> ELSE <<dirt>>
        base(dirt) == [dirt |-> dirt, kwd |-> "base", lab |-> None,
                       path |-> Join2(get_outdir(self), addstr(dirt))]
        newdir(dirt, i) == Join3(get_outdir(self), addstr(dirt), paths[i][2])
        entry(dirt, i) ==
            IF paths[i][1] \in label_dirs
            THEN [j \in 1..Len(laborder) |->
                     [dirt |-> dirt, kwd |-> paths[i][1],
                      lab |-> labnames[laborder[j]],
                      path |-> Join2(newdir(dirt, i), labnames[laborder[j]])]]
            ELSE <<[dirt |-> dirt, kwd |-> paths[i][1], lab |-> None,
                    path |-> newdir(dirt, i)]>>
        leaves(dirt, c) ==
            IF kwdorder[c] = 1 THEN <<base(dirt)>>
            ELSE entry(dirt, items[kwdorder[c] - 1])
        ofType(dirt) == Concat([c \in 1..Len(kwdorder) |-> leaves(dirt, c)])
    IN Concat([t \in 1..Len(typeorder) |-> ofType(dirtypes[typeorder[t]])])

\* self.dirs[dirt][kwd] (a path) and self.dirs[dirt][kwd][lab]
DirAt(dirs, dirt, kwd, lab) ==
    LET hit == {i \in 1..Len(dirs) : dirs[i].dirt = dirt /\ dirs[i].kwd = kwd
                                     /\ dirs[i].lab = lab}
    IN dirs[CHOOSE i \in hit : TRUE].path

\* flatten(current, result): the leaves of current appended to result
flatten(current, result) ==
    result \o [i \in 1..Len(current) |-> current[i].path]

\* add_dirs calling flatten(self.dirs): result is the shared default list
AddDirsResult_default(shared) == [list |-> shared, shared |-> TRUE]

\* the list add_dirs hands to flatten as result: a fresh [] each call, so
\* flatten's shared default list is left as it is
AddDirsResult(shared) == [list |-> <<>>, shared |-> FALSE]

\* add_dirs that also stores the output base directory in self.__outdir__
add_dirs_sets_outdir(self, paths, labels, label_dirs, shared) ==
    LET d == DirsOf(self, paths, labels, label_dirs)
    IN [self    |-> [self EXCEPT !.dirs = d,
                              !.outdir = DirAt(d, "output", "base", None)],
        newdirs |-> flatten(d, <<>>),
        shared  |-> shared]

\* name_resource.add_dirs: the new value of self.dirs and the directories of
\* its "mkdir -p" command.  shared is flatten's default result list, which
\* add_dirs does not use.
add_dirs(self, paths, labels, label_dirs, shared) ==
    LET d == DirsOf(self, paths, labels, label_dirs)
        r == AddDirsResult(shared)
        newdirs == flatten(d, r.list)
    IN [self    |-> [self EXCEPT !.dirs = d],
        newdirs |-> newdirs,
        shared  |-> IF r.shared THEN newdirs ELSE shared]

\* ------------------------------------------------------------------ inputs
Ext == <<".", "nii", ".", "gz">>

RECURSIVE Underscored(_)
\* the parts joined by "_"
Underscored(parts) ==
    IF Len(parts) = 0 THEN <<>>
    ELSE IF Len(parts) = 1 THEN parts[1]
    ELSE parts[1] \o <<"_">> \o Underscored(Tail(parts))

EntityParts == << <<"sub-", "01">>, <<"ses-", "02">>, <<"run-", "1">>, <<"bold">> >>

\* file names made of any non-empty choice of sub-01, ses-02, run-1 and the
\* suffix bold, in that order, joined by "_", then .nii.gz
FuncNames ==
    {Underscored(SelectSeq(EntityParts, LAMBDA q : q \in chosen)) \o Ext :
        chosen \in (SUBSET {EntityParts[i] : i \in 1..4}) \ {{}}}

\* no directory; a BIDS tree with a session directory; a directory whose
\* name holds a run- entity and an underscore
FuncDirs ==
    { <<>>,
      <<"/", "data", "/", "sub-", "01", "/", "ses-", "02", "/", "func", "/">>,
      <<"/", "data", "/", "run-", "1", "_", "old", "/">> }

FuncPaths == {d \o n : d \in FuncDirs, n \in FuncNames}

T1wPaths ==
    { <<"/", "data", "/", "sub-", "01", "/", "anat", "/",
        "sub-", "01", "_", "T1w">> \o Ext }

TempPaths ==
    { <<"MNI152">> \o Ext,
      <<"/", "atlas", "/", "MNI152", "_", "res-", "2mm", "_", "T1w">> \o Ext,
      <<"/", "atlas", "/", "MNI152", "_", "res-", "2mm">> \o Ext,
      <<"/", "atlas", "/", "res-", "2mm", "_", "set", "/", "MNI152">> \o Ext }

OutPaths == { <<"out">>, <<"/", "out", "/">> }

LabelPaths ==
    { <<"desikan">> \o Ext,
      <<"/", "atlas", "/", "aal", "_", "res-", "2mm">> \o Ext }

\* sequences over S of length at most n
SeqsUpTo(S, n) == UNION {[1..k -> S] : k \in 0..n}

\* what may be passed as labels: a list of at most MaxLabels label paths,
\* or one label path that is not in a list
LabelArgs ==
    {[list |-> TRUE, v |-> l] : l \in SeqsUpTo(LabelPaths, MaxLabels)}
    \cup {[list |-> FALSE, v |-> l] : l \in LabelPaths}

\* the paths dict, opt/clean/label dirs of ndmg_func_worker
WorkerPaths ==
    << <<"prep_f",   <<"func", "/", "preproc">>>>,
       <<"prep_a",   <<"anat", "/", "preproc">>>>,
       <<"reg_f",    <<"func", "/", "registered">>>>,
       <<"reg_a",    <<"anat", "/", "registered">>>>,
       <<"nuis_f",   <<"func", "/", "clean">>>>,
       <<"nuis_a",   <<"func", "/", "clean">>>>,
       <<"ts_voxel", <<"func", "/", "voxel-timeseries">>>>,
       <<"ts_roi",   <<"func", "/", "roi-timeseries">>>>,
       <<"conn",     <<"func", "/", "connectomes">>>> >>

WorkerLabelDirs == {"ts_roi", "conn"}

\* ------------------------------------------------------------------- state
VARIABLES
    pc,             \* where the running program is
    args,           \* the arguments it was started with
    namer,          \* the name_resource instance (None before it exists)
    ret,            \* the last method call on namer: [m, arg, v]
    ncalls,         \* method calls made on namer since its construction
    addlog,         \* one [labels, dirs, newdirs] per add_dirs call
    flatten_result, \* the list object that is flatten's default `result`
    shell,          \* the commands handed to mgu.execute_cmd, in order
    locals,         \* local variables of the running function: the worker's
                    \* derivative names, s3_get_data's cmd and local
    trace,          \* the calls made so far, in order: ndmg_func_pipeline,
                    \* then the external calls of ndmg_func_worker
    exc,            \* the exception in flight (NoExc when there is none)
    printed,        \* stack traces printed by ndmg_func_pipeline
    exit            \* <<>> while the process runs, <<status>> once it ended

vars == <<pc, args, namer, ret, ncalls, addlog, flatten_result, shell, locals,
          trace, exc, printed, exit>>

NoExc == [cls |-> "none", what |-> "none", line |-> 0]
NoRet == [m |-> "none", arg |-> None, v |-> None]

\* mgu.execute_cmd(cmd): runs the command, whose exit status st is not
\* looked at by any caller, and returns normally
execute_cmd(log, cmd, argv, st) ==
    Append(log, [cmd |-> cmd, argv |-> argv, status |-> st])

\* ------------------------------------------- a name_resource and its calls
InitState ==
    /\ namer = None
    /\ ret = NoRet
    /\ ncalls = 0
    /\ addlog = <<>>
    /\ flatten_result = <<>>
    /\ shell = <<>>
    /\ locals = None
    /\ trace = <<>>
    /\ exc = NoExc
    /\ printed = 0
    /\ exit = <<>>

\* name_resource(modf, t1wf, tempf, opath)
Construct ==
    /\ pc = "new"
    /\ IF name_resource_raises(args.modf)
       THEN /\ pc' = "raised"
            /\ exc' = [cls |-> "Exception", what |-> "AttributeError", line |-> 37]
            /\ namer' = namer
       ELSE /\ pc' = "ready"
            /\ namer' = name_resource(args.modf, args.t1wf, args.tempf, args.opath)
            /\ exc' = exc
    /\ UNCHANGED <<args, ret, ncalls, addlog, flatten_result, shell, locals,
                   trace, printed, exit>>

\* a method that only reads the instance and returns v
Returns(m, arg, v) ==
    /\ pc = "ready"
    /\ ncalls < MaxCalls
    /\ ret' = [m |-> m, arg |-> arg, v |-> v]
    /\ ncalls' = ncalls + 1
    /\ UNCHANGED <<pc, args, namer, addlog, flatten_result, shell, locals,
                   trace, exc, printed, exit>>

CallGetOutdir == Returns("get_outdir", None, get_outdir(namer))

CallGetLabel == \E l \in LabelPaths : Returns("get_label", l, get_label(l))

CallGetTemplateSpace ==
    Returns("get_template_space", None, get_template_space(namer))

CallNameDerivative ==
    \E d \in {<<"x">> \o Ext, <<"/", "x">> \o Ext} :
        Returns("name_derivative", d, name_derivative(get_outdir(namer), d))

CallGetModSource == Returns("get_mod_source", None, get_mod_source(namer))

CallGetAnatSource == Returns("get_anat_source", None, get_anat_source(namer))

\* namer.add_dirs(paths, labels, label_dirs) with the worker's paths and
\* label_dirs; the mkdir command ends with a status of sts
AddDirsCall(sts) ==
    /\ pc = "ready"
    /\ ncalls < MaxCalls
    /\ \E labels \in LabelArgs, st \in sts :
         LET r == add_dirs(namer, WorkerPaths, labels, WorkerLabelDirs,
                           flatten_result)
         IN /\ namer' = r.self
            /\ flatten_result' = r.shared
            /\ shell' = execute_cmd(shell, "mkdir -p", r.newdirs, st)
            /\ addlog' = Append(addlog, [labels |-> labels, dirs |-> r.self.dirs,
                                         newdirs |-> r.newdirs])
            /\ ret' = [m |-> "add_dirs", arg |-> None, v |-> None]
    /\ ncalls' = ncalls + 1
    /\ UNCHANGED <<pc, args, locals, trace, exc, printed, exit>>

\* a dict a caller may hand to flatten: {'output': {'base': 'x'}}, as its
\* leaves
FlattenDicts ==
    { <<[dirt |-> "output", kwd |-> "base", lab |-> None, path |-> <<"x">>]>> }

\* flatten(current) called without result: the leaves are appended to the
\* one list that is the default of result, and that list is returned
CallFlatten ==
    /\ pc = "ready"
    /\ ncalls < MaxCalls
    /\ \E current \in FlattenDicts \cup
                      (IF addlog # <<>> THEN {namer.dirs} ELSE {}) :
          /\ flatten_result' = flatten(current, flatten_result)
          /\ ret' = [m |-> "flatten", arg |-> None,
                     v |-> flatten(current, flatten_result)]
    /\ ncalls' = ncalls + 1
    /\ UNCHANGED <<pc, args, namer, addlog, shell, locals, trace, exc,
                   printed, exit>>

\* add_dirs whose mkdir succeeds
CallAddDirsOk == AddDirsCall({0})

\* add_dirs whose mkdir succeeds or fails
CallAddDirs == AddDirsCall({0, 1})

\* construction over the whole range of input paths, then reading methods
InitNamer ==
    /\ pc = "new"
    /\ InitState
    /\ args \in [modf : FuncPaths, t1wf : T1wPaths, tempf : TempPaths,
                 opath : OutPaths]

NextNamer ==
    \/ Construct
    \/ CallGetOutdir
    \/ CallGetLabel
    \/ CallGetTemplateSpace
    \/ CallNameDerivative
    \/ CallGetModSource
    \/ CallGetAnatSource

SpecNamer == InitNamer /\ [][NextNamer]_vars

\* any sequence of method calls, add_dirs included, on a few instances
DirsFuncPaths ==
    { <<"sub-", "01", "_", "bold">> \o Ext,
      <<"/", "data", "/", "sub-", "01", "/", "ses-", "02", "/", "func", "/",
        "sub-", "01", "_", "ses-", "02", "_", "bold">> \o Ext }

InitDirs ==
    /\ pc = "new"
    /\ InitState
    /\ args \in [modf : DirsFuncPaths, t1wf : T1wPaths,
                 tempf : {<<"MNI152">> \o Ext}, opath : OutPaths]

NextDirs ==
    \/ Construct
    \/ CallAddDirsOk
    \/ CallFlatten
    \/ CallGetOutdir
    \/ CallGetLabel
    \/ CallGetTemplateSpace
    \/ CallNameDerivative
    \/ CallGetModSource
    \/ CallGetAnatSource

SpecDirs == InitDirs /\ [][NextDirs]_vars

\* ------------------------------------------- ndmg_func_pipeline.py: worker
\* the derivative names ndmg_func_worker computes once add_dirs has run
WorkerNames(self, labels, fmt) ==
    LET subi      == get_mod_source(self)
        anati     == get_anat_source(self)
        reg_fname == subi \o <<"_">> \o get_template_space(self)
        reg_aname == anati \o <<"_">> \o get_template_space(self)
        out(k)    == DirAt(self.dirs, "output", k, None)
        L         == AsLabelList(labels)
    IN [qc_stats |-> DirAt(self.dirs, "qa", "base", None) \o <<"/">> \o subi
                     \o <<"_", "stats", ".", "pkl">>,
        preproc_func |-> name_derivative(out("prep_f"),
                            subi \o <<"_", "preproc">> \o Ext),
        motion_func |-> name_derivative(DirAt(self.dirs, "tmp", "prep_f", None),
                            subi \o <<"_", "variant-mc", "_", "preproc">> \o Ext),
        preproc_t1w_brain |-> name_derivative(out("prep_a"),
                            anati \o <<"_", "preproc", "_", "variant-brain">> \o Ext),
        aligned_func |-> name_derivative(out("reg_f"),
                            reg_fname \o <<"_", "registered">> \o Ext),
        aligned_t1w |-> name_derivative(out("reg_a"),
                            reg_aname \o <<"_", "registered">> \o Ext),
        nuis_func |-> name_derivative(out("nuis_f"),
                            reg_fname \o <<"_", "clean">> \o Ext),
        voxel_ts |-> name_derivative(out("ts_voxel"),
                            reg_fname \o <<"_", "timeseries">> \o Ext),
        labels |-> L,
        connectomes |-> [i \in 1..Len(L) |->
            name_derivative(DirAt(self.dirs, "output", "conn", get_label(L[i])),
                subi \o <<"_">> \o get_label(L[i])
                \o <<"_", "measure-correlation", ".", fmt>>)],
        roi_ts |-> [i \in 1..Len(L) |->
            name_derivative(DirAt(self.dirs, "output", "ts_roi", get_label(L[i])),
                subi \o <<"_">> \o get_label(L[i])
                \o <<"_", "variant-mean", "_", "timeseries", ".", "npz">>)]]

\* the calls ndmg_func_worker makes into other modules, in program order,
\* from the QA collector's construction to the voxel timeseries QA; stage
\* names the pipeline stage a call runs ("" for constructors and QA calls)
WorkerCalls ==
    << [line |-> 144, call |-> "qa_func",                stage |-> ""],
       [line |-> 148, call |-> "mgfp",                   stage |-> ""],
       [line |-> 149, call |-> "f_prep.preprocess",      stage |-> "func_preproc"],
       [line |-> 150, call |-> "qc.func_preproc_qa",     stage |-> ""],
       [line |-> 152, call |-> "mgap",                   stage |-> ""],
       [line |-> 153, call |-> "a_prep.preprocess",      stage |-> "anat_preproc"],
       [line |-> 154, call |-> "qc.anat_preproc_qa",     stage |-> ""],
       [line |-> 158, call |-> "mgreg",                  stage |-> ""],
       [line |-> 161, call |-> "func_reg.self_align",    stage |-> "self_align"],
       [line |-> 162, call |-> "qc.self_reg_qa",         stage |-> ""],
       [line |-> 163, call |-> "func_reg.template_align", stage |-> "template_align"],
       [line |-> 164, call |-> "qc.temp_reg_qa",         stage |-> ""],
       [line |-> 168, call |-> "mgn",                    stage |-> ""],
       [line |-> 170, call |-> "nuis.nuis_correct",      stage |-> "nuis_correct"],
       [line |-> 172, call |-> "qc.nuisance_qa",         stage |-> ""],
       [line |-> 176, call |-> "mgts",                   stage |-> ""],
       [line |-> 176, call |-> "mgts.voxel_timeseries",  stage |-> "voxel_timeseries"],
       [line |-> 177, call |-> "qc.voxel_ts_qa",         stage |-> ""] >>

\* the path arguments of each call of WorkerCalls, in the order the source
\* passes them; w holds the worker's own arguments, n its derivative names,
\* namer.dirs['tmp'] is passed as the entries of dirs under "tmp", and the
\* timeseries object that voxel_ts_qa gets before its two paths is None
WorkerCallArgs(call, w, stc, n, dirs) ==
    LET tmp == SelectSeq(dirs, LAMBDA d : d.dirt = "tmp")
    IN CASE call = "mgfp" ->
                <<w.func, n.preproc_func, n.motion_func,
                  DirAt(dirs, "tmp", "prep_f", None)>>
         [] call = "f_prep.preprocess" -> <<stc>>
         [] call = "mgap" ->
                <<w.t1w, n.preproc_t1w_brain, DirAt(dirs, "tmp", "prep_a", None)>>
         [] call = "mgreg" ->
                <<n.preproc_func, w.t1w, n.preproc_t1w_brain, w.atlas,
                  w.atlas_brain, w.atlas_mask, n.aligned_func, n.aligned_t1w,
                  tmp>>
         [] call = "mgn" ->
                <<n.aligned_func, n.aligned_t1w, n.nuis_func, tmp, w.lv_mask>>
         [] call = "mgts.voxel_timeseries" ->
                <<n.nuis_func, w.atlas_mask, n.voxel_ts>>
         [] call = "qc.voxel_ts_qa" -> <<None, n.nuis_func, w.atlas_mask>>
         [] OTHER -> <<>>

\* how a call into another module ends: it returns, it raises an exception
\* derived from Exception, or it raises one that is not (SystemExit,
\* KeyboardInterrupt)
Outcomes == {"ok", "Exception", "BaseException"}

\* the exceptions not derived from Exception a call may end in
BaseKinds == {"SystemExit(0)", "SystemExit(3)", "KeyboardInterrupt"}

\* the status the interpreter ends with when exception e reaches the top
\* level: the code of a SystemExit, 1 for any other exception
exit_status(e) ==
    CASE e.what = "SystemExit(0)" -> 0
      [] e.what = "SystemExit(3)" -> 3
      [] OTHER -> 1

Event(call, line, stage, out, what, arg) ==
    [call |-> call, line |-> line, stage |-> stage, out |-> out,
     what |-> what, arg |-> arg]

Raise(cls, what, line) == [cls |-> cls, what |-> what, line |-> line]

\* a handler that lets every exception through
Caught_never(e) == FALSE

\* `except Exception, e`: the classes the handler of ndmg_func_pipeline takes
Caught(e) == e.cls = "Exception"

\* main's slice-timing check without the test for an existing file
main_stc_unchecked(stc, stc_file, isfile) ==
    LET s == IF stc = <<"none">> THEN None ELSE stc
    IN IF s = <<"file">>
       THEN IF stc_file = None THEN [exits |-> TRUE, stc |-> s]
            ELSE [exits |-> FALSE, stc |-> stc_file]
       ELSE [exits |-> FALSE, stc |-> s]

\* main, from parse_args to the end of the slice-timing check: whether
\* sys.exit is called, and result.stc
main_stc(stc, stc_file, isfile) ==
    LET s == IF stc = <<"none">> THEN None ELSE stc
    IN IF s = <<"file">>
       THEN IF stc_file = None THEN [exits |-> TRUE, stc |-> s]
            ELSE IF ~isfile THEN [exits |-> TRUE, stc |-> s]
            ELSE [exits |-> FALSE, stc |-> stc_file]
       ELSE [exits |-> FALSE, stc |-> s]

StcModes == {"none", "interleaved", "up", "down", "file"}

StcFile == <<"/", "stc", ".", "txt">>

WorkerFuncPaths ==
    { <<"/", "data", "/", "sub-", "01", "/", "ses-", "02", "/", "func", "/",
        "sub-", "01", "_", "ses-", "02", "_", "bold">> \o Ext,
      <<"sub-", "01", "_", "bold">> \o Ext,
      <<"bold">> \o Ext }

WorkerArgs ==
    [func : WorkerFuncPaths, t1w : T1wPaths,
     atlas : {<<"/", "atlas", "/", "MNI152", "_", "res-", "2mm", "_", "T1w">> \o Ext},
     atlas_brain : {<<"/", "atlas", "/", "MNI152", "_", "brain">> \o Ext},
     atlas_mask : {<<"/", "atlas", "/", "MNI152", "_", "mask">> \o Ext},
     lv_mask : {<<"/", "atlas", "/", "HarvardOxford", "_", "lv">> \o Ext},
     outdir : {<<"out">>}, clean : BOOLEAN, fmt : {"gpickle"}]

\* the command line as parsed by argparse (labels is always a list), or a
\* direct call of ndmg_func_pipeline
Init ==
    /\ InitState
    /\ \E w \in WorkerArgs :
        \/ /\ pc = "main"
           /\ \E m \in StcModes, l \in SeqsUpTo(LabelPaths, MaxLabels),
                 f \in {<<None, FALSE>>, <<StcFile, FALSE>>, <<StcFile, TRUE>>} :
                 args = [entry |-> "main", w |-> w, labels |-> [list |-> TRUE, v |-> l],
                         mode |-> m, stc |-> <<m>>, stc_file |-> f[1],
                         isfile |-> f[2]]
        \/ /\ pc = "call"
           /\ \E l \in LabelArgs, st \in {None, <<"up">>} :
                 args = [entry |-> "call", w |-> w, labels |-> l,
                         mode |-> "call", stc |-> st, stc_file |-> None,
                         isfile |-> FALSE]

\* main: `result.stc = None if ...` and the check of the STC file; sys.exit
\* ends the process with a non-zero status (sys is not imported by the
\* script itself: whether the name resolves or not, the process ends here
\* with status 1)
M_Stc ==
    /\ pc = "main"
    /\ LET r == main_stc(args.stc, args.stc_file, args.isfile)
       IN IF r.exits
          THEN /\ pc' = "done"
               /\ exit' = <<1>>
               /\ args' = [args EXCEPT !.stc = r.stc]
          ELSE /\ pc' = "m_mkdir"
               /\ exit' = exit
               /\ args' = [args EXCEPT !.stc = r.stc]
    /\ UNCHANGED <<namer, ret, ncalls, addlog, flatten_result, shell, locals,
                   trace, exc, printed>>

\* main: mgu.execute_cmd("mkdir -p {} {}/tmp")
M_Mkdir ==
    /\ pc = "m_mkdir"
    /\ \E st \in {0, 1} :
         shell' = execute_cmd(shell, "mkdir -p",
                     <<args.w.outdir, args.w.outdir \o <<"/", "tmp">>>>, st)
    /\ pc' = "m_pipeline"
    /\ UNCHANGED <<args, namer, ret, ncalls, addlog, flatten_result, locals,
                   trace, exc, printed, exit>>

\* ndmg_func_pipeline is entered (from main, or called directly) and calls
\* ndmg_func_worker inside its try block
PipelineCall ==
    /\ pc \in {"m_pipeline", "call"}
    /\ trace' = Append(trace,
                   Event("ndmg_func_pipeline", 235, "", "called", "", args.stc))
    /\ pc' = "w_namer"
    /\ UNCHANGED <<args, namer, ret, ncalls, addlog, flatten_result, shell,
                   locals, exc, printed, exit>>

\* worker: namer = name_resource(func, t1w, atlas, outdir)
W_Namer ==
    /\ pc = "w_namer"
    /\ IF name_resource_raises(args.w.func)
       THEN /\ exc' = Raise("Exception", "AttributeError", 37)
            /\ trace' = Append(trace,
                  Event("raise", 37, "", "Exception", "AttributeError", None))
            /\ pc' = "except"
            /\ namer' = namer
       ELSE /\ namer' = name_resource(args.w.func, args.w.t1w, args.w.atlas,
                                      args.w.outdir)
            /\ pc' = "w_add_dirs"
            /\ UNCHANGED <<exc, trace>>
    /\ UNCHANGED <<args, ret, ncalls, addlog, flatten_result, shell, locals,
                   printed, exit>>

\* worker: namer.add_dirs(paths, labels, label_dirs)
W_AddDirs ==
    /\ pc = "w_add_dirs"
    /\ \E st \in {0, 1} :
         LET r == add_dirs(namer, WorkerPaths, args.labels, WorkerLabelDirs,
                           flatten_result)
         IN /\ namer' = r.self
            /\ flatten_result' = r.shared
            /\ shell' = execute_cmd(shell, "mkdir -p", r.newdirs, st)
    /\ pc' = "w_names"
    /\ UNCHANGED <<args, ret, ncalls, addlog, locals, trace, exc, printed, exit>>

\* worker: the derivative file names (qc_stats ... roi_ts)
W_Names ==
    /\ pc = "w_names"
    /\ locals' = WorkerNames(namer, args.labels, args.w.fmt)
    /\ pc' = "w_call"
    /\ UNCHANGED <<args, namer, ret, ncalls, addlog, flatten_result, shell,
                   trace, exc, printed, exit>>

\* worker: the next call of WorkerCalls; trace[1] is the pipeline's own
\* entry, so Len(trace) is the index of the call to make
W_Call ==
    /\ pc = "w_call"
    /\ LET k == Len(trace)
           c == WorkerCalls[k]
       IN \E out \in Outcomes :
          \E what \in IF out = "BaseException" THEN BaseKinds
                      ELSE IF out = "Exception" THEN {c.call} ELSE {""} :
            /\ trace' = Append(trace, Event(c.call, c.line, c.stage, out, what,
                            WorkerCallArgs(c.call, args.w, args.stc, locals,
                                           namer.dirs)))
            /\ IF out = "ok"
               THEN /\ pc' = IF k = Len(WorkerCalls) THEN "w_loop" ELSE "w_call"
                    /\ exc' = exc
               ELSE /\ pc' = "except"
                    /\ exc' = Raise(out, what, c.line)
    /\ UNCHANGED <<args, namer, ret, ncalls, addlog, flatten_result, shell,
                   locals, printed, exit>>

\* worker: `for idx, label in enumerate(label_name)`: label_name is bound
\* nowhere in the script, so the loop header raises NameError and the loop
\* body, the QA save and the cleanup that follow it are never run
W_Loop ==
    /\ pc = "w_loop"
    /\ exc' = Raise("Exception", "NameError", 180)
    /\ trace' = Append(trace, Event("raise", 180, "", "Exception", "NameError", None))
    /\ pc' = "except"
    /\ UNCHANGED <<args, namer, ret, ncalls, addlog, flatten_result, shell,
                   locals, printed, exit>>

\* ndmg_func_pipeline: an exception leaves the worker.  The handler prints
\* the trace and returns; an exception it does not take leaves the
\* function and main, and the process ends with the status it carries.
P_Except ==
    /\ pc = "except"
    /\ IF Caught(exc)
       THEN /\ printed' = printed + 1
            /\ exc' = NoExc
            /\ pc' = IF args.entry = "main" THEN "m_end" ELSE "done"
            /\ exit' = exit
       ELSE /\ pc' = "done"
            /\ exit' = IF args.entry = "main" THEN <<exit_status(exc)>> ELSE exit
            /\ UNCHANGED <<printed, exc>>
    /\ UNCHANGED <<args, namer, ret, ncalls, addlog, flatten_result, shell,
                   locals, trace>>

\* main returns after ndmg_func_pipeline returned: status 0
M_End ==
    /\ pc = "m_end"
    /\ exit' = <<0>>
    /\ pc' = "done"
    /\ UNCHANGED <<args, namer, ret, ncalls, addlog, flatten_result, shell,
                   locals, trace, exc, printed>>

Next ==
    \/ M_Stc
    \/ M_Mkdir
    \/ PipelineCall
    \/ W_Namer
    \/ W_AddDirs
    \/ W_Names
    \/ W_Call
    \/ W_Loop
    \/ P_Except
    \/ M_End

Spec == Init /\ [][Next]_vars

\* ------------------------------------------------ bids_utils.py: S3 helpers
Buckets == { <<"b1">>, <<"b2">> }

\* s3_get_data up to the bucket check: whether the function is left there
\* (sys.exit is reached; sys is not imported by bids_utils, so the call
\* raises NameError)
s3_get_stops(bucket, public, bkts) == ~public /\ bucket \notin bkts

\* s3_get_data: the source of the copy, 'aws [...] s3 cp --recursive
\* s3://<bucket>/<remote_path>[/sub-<subj>]'
s3_get_source(bucket, remote_path, subj, public) ==
    [cmd |-> IF public
             THEN "aws --no-sign-request --region=us-east-1 s3 cp --recursive"
             ELSE "aws s3 cp --recursive",
     src |-> <<"s3://">> \o bucket \o <<"/">> \o remote_path
             \o (IF subj # None THEN <<"/", "sub-">> \o subj ELSE <<>>)]

\* s3_get_data copying only when the command before it succeeded
s3_get_copy_if_ok(log, cmd, src, local, st) ==
    IF log # <<>> /\ log[Len(log)].status # 0 THEN log
    ELSE execute_cmd(log, cmd, <<src, local>>, st)

\* s3_get_data: `cmd = "".join([cmd, ' ', local])` and its execution
s3_get_copy(log, cmd, src, local, st) == execute_cmd(log, cmd, <<src, local>>, st)

\* s3_push_data: the copy command and its execution
s3_push_copy(log, bucket, remote, outDir, modifier, creds, st) ==
    execute_cmd(log,
        IF creds
        THEN "aws s3 cp --exclude tmp/* --recursive --acl public-read"
        ELSE "aws s3 cp --exclude tmp/* --recursive --acl public-read --no-sign-request",
        <<outDir, <<"s3://">> \o bucket \o <<"/">> \o remote \o <<"/">> \o modifier>>,
        st)

\* s3_get_data, lines 277-282
S3Get_Check ==
    /\ pc = "get"
    /\ IF s3_get_stops(args.bucket, args.public, args.bkts)
       THEN /\ exc' = Raise("Exception", "NameError", 281)
            /\ pc' = "done"
       ELSE /\ exc' = exc
            /\ pc' = "get_cmd"
    /\ UNCHANGED <<args, namer, ret, ncalls, addlog, flatten_result, shell,
                   locals, trace, printed, exit>>

\* s3_get_data, lines 283-291: the command's source, and with a subject the
\* mkdir of <local>/sub-<subj>, which becomes local
S3Get_Mkdir ==
    /\ pc = "get_cmd"
    /\ LET c == s3_get_source(args.bucket, args.remote, args.subj, args.public)
       IN IF args.subj # None
          THEN LET sub == args.local \o <<"/", "sub-">> \o args.subj
               IN /\ \E st \in {0, 1} :
                       shell' = execute_cmd(shell, "mkdir -p", <<sub>>, st)
                  /\ locals' = <<c.cmd, c.src, sub>>
          ELSE /\ shell' = shell
               /\ locals' = <<c.cmd, c.src, args.local>>
    /\ pc' = "get_cp"
    /\ UNCHANGED <<args, namer, ret, ncalls, addlog, flatten_result, trace, exc,
                   printed, exit>>

\* s3_get_data, lines 293-295
S3Get_Copy ==
    /\ pc = "get_cp"
    /\ \E st \in {0, 1} :
         shell' = s3_get_copy(shell, locals[1], locals[2], locals[3], st)
    /\ pc' = "done"
    /\ UNCHANGED <<args, namer, ret, ncalls, addlog, flatten_result, locals,
                   trace, exc, printed, exit>>

\* s3_push_data
S3Push ==
    /\ pc = "push"
    /\ \E st \in {0, 1} :
         shell' = s3_push_copy(shell, args.bucket, args.remote, args.outDir,
                               args.modifier, args.creds, st)
    /\ pc' = "done"
    /\ UNCHANGED <<args, namer, ret, ncalls, addlog, flatten_result, locals,
                   trace, exc, printed, exit>>

\* the functions that hand commands to the shell: s3_get_data,
\* s3_push_data, and add_dirs on a new name_resource
InitShell ==
    /\ InitState
    /\ \/ /\ pc = "get"
          /\ args \in [fn : {"get"}, bucket : Buckets, bkts : {{<<"b1">>}},
                       remote : {<<"bids">>}, local : {<<"/", "in">>},
                       subj : {None, <<"01">>}, public : BOOLEAN]
       \/ /\ pc = "push"
          /\ args \in [fn : {"push"}, bucket : Buckets, remote : {<<"bids">>},
                       outDir : {<<"out">>}, modifier : {<<"func">>},
                       creds : BOOLEAN]
       \/ /\ pc = "new"
          /\ args \in [fn : {"add_dirs"},
                       modf : {<<"sub-", "01", "_", "bold">> \o Ext},
                       t1wf : T1wPaths, tempf : {<<"MNI152">> \o Ext},
                       opath : {<<"out">>}]

NextShell ==
    \/ S3Get_Check
    \/ S3Get_Mkdir
    \/ S3Get_Copy
    \/ S3Push
    \/ Construct
    \/ CallAddDirs

SpecShell == InitShell /\ [][NextShell]_vars

\* ------------------------------------------ bids_utils.py: sweep_directory
MaxFiles == 4

\* None among the plain strings of a BIDS query
Nil == "<None>"

\* Python truth of a string or None
Truthy(x) == x # Nil /\ x # ""

\* the files a BIDS directory may hold, in the order the layout lists them
BidsFiles ==
    << [subject |-> "01", session |-> Nil, task |-> Nil, run |-> Nil,
        modality |-> "anat", type |-> "T1w", ext |-> "nii.gz",
        filename |-> "sub-01/anat/sub-01_T1w.nii.gz"],
       [subject |-> "01", session |-> Nil, task |-> "rest", run |-> Nil,
        modality |-> "func", type |-> "bold", ext |-> "nii.gz",
        filename |-> "sub-01/func/sub-01_task-rest_bold.nii.gz"],
       [subject |-> "01", session |-> Nil, task |-> Nil, run |-> Nil,
        modality |-> "dwi", type |-> "dwi", ext |-> "nii.gz",
        filename |-> "sub-01/dwi/sub-01_dwi.nii.gz"],
       [subject |-> "01", session |-> Nil, task |-> Nil, run |-> Nil,
        modality |-> "dwi", type |-> "dwi", ext |-> "bval",
        filename |-> "sub-01/dwi/sub-01_dwi.bval"],
       [subject |-> "01", session |-> Nil, task |-> Nil, run |-> Nil,
        modality |-> "dwi", type |-> "dwi", ext |-> "bvec",
        filename |-> "sub-01/dwi/sub-01_dwi.bvec"],
       [subject |-> "02", session |-> "1", task |-> Nil, run |-> Nil,
        modality |-> "anat", type |-> "T1w", ext |-> "nii.gz",
        filename |-> "sub-02/ses-1/anat/sub-02_ses-1_T1w.nii.gz"],
       [subject |-> "02", session |-> "1", task |-> "rest", run |-> Nil,
        modality |-> "func", type |-> "bold", ext |-> "nii.gz",
        filename |-> "sub-02/ses-1/func/sub-02_ses-1_task-rest_bold.nii.gz"] >>

\* a directory content: the positions of BidsFiles that are present
Contents == {c \in SUBSET (1..Len(BidsFiles)) : Cardinality(c) <= MaxFiles}

\* BIDSLayout(bdir) over a content: its files, in order
BIDSLayout(content) ==
    [k \in 1..Cardinality(content) |->
        BidsFiles[CHOOSE i \in content :
                      Cardinality({j \in content : j < i}) = k - 1]]

RECURSIVE Uniq(_, _)
\* the values of seq, without Nil and without repetition, in order
Uniq(seq, seen) ==
    IF seq = <<>> THEN <<>>
    ELSE IF Head(seq) = Nil \/ Head(seq) \in seen THEN Uniq(Tail(seq), seen)
    ELSE <<Head(seq)>> \o Uniq(Tail(seq), seen \cup {Head(seq)})

\* layout.get_subjects()
get_subjects(layout) ==
    Uniq([i \in 1..Len(layout) |-> layout[i].subject], {})

\* layout.get_sessions(subject=sub)
get_sessions(layout, sub) ==
    LET fs == SelectSeq(layout, LAMBDA f : f.subject = sub)
    IN Uniq([i \in 1..Len(fs) |-> fs[i].session], {})

\* layout.get_tasks(subject=sub)
get_tasks(layout, sub) ==
    LET fs == SelectSeq(layout, LAMBDA f : f.subject = sub)
    IN Uniq([i \in 1..Len(fs) |-> fs[i].task], {})

\* layout.get_runs(subject=sub)
get_runs(layout, sub) ==
    LET fs == SelectSeq(layout, LAMBDA f : f.subject = sub)
    IN Uniq([i \in 1..Len(fs) |-> fs[i].run], {})

\* whether a file's extension matches the regular expression of a query
ExtMatches(ext, pattern) ==
    IF pattern = "nii.gz|nii" THEN ext \in {"nii.gz", "nii"} ELSE ext = pattern

\* layout.get(**query): the file names matching every key of the query
layout_get(layout, query) ==
    LET val(f, k) == CASE k = "subject" -> f.subject
                       [] k = "session" -> f.session
                       [] k = "task" -> f.task
                       [] k = "run" -> f.run
                       [] k = "modality" -> f.modality
                       [] k = "type" -> f.type
        ok(f) == \A k \in DOMAIN query :
                    IF k = "extensions" THEN ExtMatches(f.ext, query[k])
                    ELSE val(f, k) = query[k]
        hit == SelectSeq(layout, ok)
    IN [i \in 1..Len(hit) |-> hit[i].filename]

\* as_list(x): x itself when it is a list, [x] otherwise
as_list(x) == IF x.list THEN x.v ELSE <<x.v>>

\* merge_dicts(x, y): a copy of x updated with y
merge_dicts(x, y) ==
    [k \in DOMAIN x \cup DOMAIN y |-> IF k \in DOMAIN y THEN y[k] ELSE x[k]]

\* Python truth of an argument: not None, not '', not []
ArgTruthy(x) == IF x.list THEN x.v # <<>> ELSE Truthy(x.v)

\* itertools.product of three lists, as the list of its triples
product(A, B, C) ==
    [n \in 1..(Len(A) * Len(B) * Len(C)) |->
        <<A[((n - 1) \div (Len(B) * Len(C))) + 1],
          B[(((n - 1) \div Len(C)) % Len(B)) + 1],
          C[((n - 1) % Len(C)) + 1]>>]

\* a query dict: the fixed items of base, and key -> attr for every attr
\* that is true (`for attr, key in zip(...): if attr: query[key] = attr`)
Query(base, attrs) ==
    LET keys == {attrs[i][1] : i \in {j \in 1..Len(attrs) : Truthy(attrs[j][2])}}
    IN [k \in DOMAIN base \cup keys |->
           IF k \in keys
           THEN attrs[CHOOSE i \in 1..Len(attrs) : attrs[i][1] = k][2]
           ELSE base[k]]

\* the lists sweep_directory fills
SweepLists == [dwis |-> <<>>, bvals |-> <<>>, bvecs |-> <<>>, funcs |-> <<>>,
               anats |-> <<>>]

RECURSIVE AddDwis(_, _, _, _, _, _)
\* `for (dw, bva, bve) in zip(dwi, bval, bvec)` from position k on
AddDwis(k, dwi, bval, bvec, anat, acc) ==
    IF k > Min({Len(dwi), Len(bval), Len(bvec)}) THEN acc
    ELSE IF \E i \in 1..Len(acc.dwis) : acc.dwis[i] = dwi[k]
    THEN AddDwis(k + 1, dwi, bval, bvec, anat, acc)
    ELSE AddDwis(k + 1, dwi, bval, bvec, anat,
                 [acc EXCEPT !.anats = Append(@, anat[1]),
                             !.dwis = Append(@, dwi[k]),
                             !.bvals = Append(@, bval[k]),
                             !.bvecs = Append(@, bvec[k])])

RECURSIVE AddFuncs(_, _, _, _)
\* `for fun in func` from position k on
AddFuncs(k, func, anat, acc) ==
    IF k > Len(func) THEN acc
    ELSE IF \E i \in 1..Len(acc.funcs) : acc.funcs[i] = func[k]
    THEN AddFuncs(k + 1, func, anat, acc)
    ELSE AddFuncs(k + 1, func, anat,
                  [acc EXCEPT !.funcs = Append(@, func[k]),
                              !.anats = Append(@, anat[1])])

\* the body of the loop over product(seshs, tasks, runs) for a modality
\* that binds type_img: the lists after the iteration for (sub, combo)
sweep_body(layout, modality, sub, combo, acc) ==
    LET type_img == IF modality = "dwi" THEN "dwi" ELSE "bold"
        mod_query == Query([modality |-> modality, type |-> type_img],
                           << <<"subject", sub>>, <<"session", combo[1]>>,
                              <<"task", combo[2]>>, <<"run", combo[3]>> >>)
        anat_query == Query([modality |-> "anat", type |-> "T1w",
                             extensions |-> "nii.gz|nii"],
                            << <<"subject", sub>>, <<"session", combo[1]>> >>)
        anat == layout_get(layout, anat_query)
        get(ext) == layout_get(layout, merge_dicts(mod_query,
                                                   [extensions |-> ext]))
    IN IF modality = "dwi"
       THEN IF anat # <<>> /\ get("nii.gz|nii") # <<>> /\ get("bval") # <<>>
               /\ get("bvec") # <<>>
            THEN AddDwis(1, get("nii.gz|nii"), get("bval"), get("bvec"),
                         anat, acc)
            ELSE acc
       ELSE IF get("nii.gz|nii") # <<>> /\ anat # <<>>
            THEN AddFuncs(1, get("nii.gz|nii"), anat, acc)
            ELSE acc

Modalities == {"dwi", "func", "anat"}

Plain(v) == [list |-> FALSE, v |-> v]

SweepArgs ==
    [fn : {"sweep"}, content : Contents, modality : Modalities,
     subj : {Plain(Nil), Plain("01"), [list |-> TRUE, v |-> <<"02", "01">>]},
     sesh : {Plain(Nil), Plain("1")},
     task : {Plain(Nil), [list |-> TRUE, v |-> <<"rest">>]},
     run : {Plain(Nil)}]

\* sweep_directory up to the loop over subjects: the lists, the layout, the
\* subjects to visit
Sweep_Setup ==
    /\ pc = "sweep"
    /\ locals' = [lists |-> SweepLists,
                  subjs |-> IF ~args.subj.list /\ args.subj.v = Nil
                            THEN get_subjects(BIDSLayout(args.content))
                            ELSE as_list(args.subj),
                  i |-> 1, combos |-> <<>>, j |-> 1]
    /\ pc' = "sw_sub"
    /\ UNCHANGED <<args, namer, ret, ncalls, addlog, flatten_result, shell,
                   trace, exc, printed, exit>>

\* `for sub in subjs`: the sessions, tasks and runs of the next subject
Sweep_Sub ==
    /\ pc = "sw_sub"
    /\ IF locals.i > Len(locals.subjs)
       THEN /\ pc' = "sw_end"
            /\ locals' = locals
       ELSE LET layout == BIDSLayout(args.content)
                sub == locals.subjs[locals.i]
                seshs == IF ~ArgTruthy(args.sesh)
                         THEN get_sessions(layout, sub) \o <<Nil>>
                         ELSE as_list(args.sesh)
                tasks == IF ~ArgTruthy(args.task)
                         THEN get_tasks(layout, sub) \o <<Nil>>
                         ELSE as_list(args.task)
                runs == IF ~ArgTruthy(args.run)
                        THEN get_runs(layout, sub) \o <<Nil>>
                        ELSE as_list(args.run)
            IN /\ locals' = [locals EXCEPT !.combos = product(seshs, tasks, runs),
                                           !.j = 1]
               /\ pc' = "sw_iter"
    /\ UNCHANGED <<args, namer, ret, ncalls, addlog, flatten_result, shell,
                   trace, exc, printed, exit>>

\* one iteration of `for (ses, tas, ru) in product(...)`.  For a modality
\* other than 'dwi' and 'func' no branch binds type_img, and reading it for
\* mod_query['type'] raises UnboundLocalError.
Sweep_Iter ==
    /\ pc = "sw_iter"
    /\ IF locals.j > Len(locals.combos)
       THEN /\ locals' = [locals EXCEPT !.i = @ + 1]
            /\ pc' = "sw_sub"
            /\ exc' = exc
       ELSE IF args.modality \notin {"dwi", "func"}
       THEN /\ exc' = Raise("Exception", "UnboundLocalError", 201)
            /\ pc' = "raised"
            /\ locals' = locals
       ELSE /\ locals' = [locals EXCEPT
                 !.lists = sweep_body(BIDSLayout(args.content), args.modality,
                                      locals.subjs[locals.i],
                                      locals.combos[locals.j], @),
                 !.j = @ + 1]
            /\ pc' = "sw_iter"
            /\ exc' = exc
    /\ UNCHANGED <<args, namer, ret, ncalls, addlog, flatten_result, shell,
                   trace, printed, exit>>

\* the end of sweep_directory: the lists of the modality, or ValueError
Sweep_End ==
    /\ pc = "sw_end"
    /\ IF args.modality = "dwi"
       THEN /\ ret' = [m |-> "sweep_directory", arg |-> None,
                       v |-> <<locals.lists.dwis, locals.lists.bvals,
                               locals.lists.bvecs, locals.lists.anats>>]
            /\ pc' = "done"
            /\ exc' = exc
       ELSE IF args.modality = "func"
       THEN /\ ret' = [m |-> "sweep_directory", arg |-> None,
                       v |-> <<locals.lists.funcs, locals.lists.anats>>]
            /\ pc' = "done"
            /\ exc' = exc
       ELSE /\ exc' = Raise("Exception", "ValueError", 247)
            /\ pc' = "raised"
            /\ ret' = ret
    /\ UNCHANGED <<args, namer, ncalls, addlog, flatten_result, shell,
                   locals, trace, printed, exit>>

InitSweep ==
    /\ InitState
    /\ pc = "sweep"
    /\ args \in SweepArgs

NextSweep ==
    \/ Sweep_Setup
    \/ Sweep_Sub
    \/ Sweep_Iter
    \/ Sweep_End

SpecSweep == InitSweep /\ [][NextSweep]_vars

\* --------------------------------------------- properties: the pipeline
\* the stages invoked so far, in order
StageTrace ==
    LET st == SelectSeq(trace, LAMBDA e : e.stage # "")
    IN [i \in 1..Len(st) |-> st[i].stage]

\* the order of stages the worker is meant to run for n labels
StagesFor(n) ==
    <<"func_preproc", "anat_preproc", "self_align", "template_align",
      "nuis_correct", "voxel_timeseries">>
    \o Concat([i \in 1..n |-> <<"roi_timeseries", "graph", "save_graph">>])
    \o <<"qa_save">>

Failures == {i \in DOMAIN trace : trace[i].out \in {"Exception", "BaseException"}}

\* C1: a run of the worker on a well-named functional image with a
\* non-empty list of labels, in which no call into another module raises,
\* has invoked each stage once, in the fixed order, when it ends.
C1_StageOrder ==
    ( /\ pc = "done"
      /\ trace # <<>>
      /\ ~name_resource_raises(args.w.func)
      /\ args.labels.list
      /\ Len(args.labels.v) > 0
      /\ \A i \in DOMAIN trace : trace[i].call # "raise" => trace[i].out # "Exception"
      /\ \A i \in DOMAIN trace : trace[i].out # "BaseException" )
    => StageTrace = StagesFor(Len(args.labels.v))

\* C2 as stated: whatever exception a step of the worker raises, the
\* pipeline has printed a trace and returned normally when it is over, and
\* the failing step is the last one run.
C2_AsStated ==
    (pc = "done" /\ Failures # {}) =>
        /\ printed = 1
        /\ exc = NoExc
        /\ Failures = {Len(trace)}

\* C2: no step runs after a failing one; and when the failure is an
\* exception derived from Exception (in the namer's construction, in a
\* stage, in the loop header), the pipeline prints one trace and returns
\* normally, so that main ends with status 0.
C2_ExceptionsSwallowed ==
    /\ Failures \subseteq {Len(trace)}
    /\ (pc \in {"m_end", "done"} /\ Failures # {}
        /\ trace[Len(trace)].out = "Exception") =>
            /\ printed = 1
            /\ exc = NoExc
            /\ pc = "done" => exit = IF args.entry = "main" THEN <<0>> ELSE <<>>

\* a stage raised an Exception, the trace was printed, main ended with 0
C2_Witness ==
    /\ pc = "done"
    /\ trace # <<>>
    /\ trace[Len(trace)].stage = "nuis_correct"
    /\ trace[Len(trace)].out = "Exception"
    /\ printed = 1
    /\ exit = <<0>>

BadStc == args.mode = "file" /\ (args.stc_file = None \/ ~args.isfile)

ExpectedStc ==
    IF args.mode = "none" THEN None
    ELSE IF args.mode = "file" THEN args.stc_file
    ELSE <<args.mode>>

PipelineCalls == SelectSeq(trace, LAMBDA e : e.call = "ndmg_func_pipeline")

\* main before and up to the pipeline: with mode file and no usable STC
\* file it ends with status 1, having made no directory and no call;
\* otherwise the output directory is made first and ndmg_func_pipeline is
\* called once, with the stc the mode selects
MainUpToPipeline ==
    IF BadStc
    THEN /\ pc \in {"main", "done"}
         /\ shell = <<>>
         /\ trace = <<>>
         /\ pc = "done" => exit = <<1>>
    ELSE /\ trace # <<>> =>
             /\ shell # <<>>
             /\ shell[1].cmd = "mkdir -p"
             /\ shell[1].argv[1] = args.w.outdir
             /\ Len(PipelineCalls) = 1
             /\ PipelineCalls[1].arg = ExpectedStc
         /\ pc = "done" => trace # <<>>

\* C7 as stated: ... and in every other case main ends with status 0.
C7_AsStated ==
    args.entry = "main" =>
        /\ MainUpToPipeline
        /\ (~BadStc /\ pc = "done") => exit = <<0>>

\* C7: ... and in every other case main ends with status 0 whenever
\* ndmg_func_pipeline returns, which it does after every failure derived
\* from Exception; a failure of another class leaves the pipeline and main,
\* and the process ends with the code of the SystemExit, or with 1 for a
\* KeyboardInterrupt.
C7_MainExit ==
    args.entry = "main" =>
        /\ MainUpToPipeline
        /\ (~BadStc /\ pc = "done") =>
              /\ exc # NoExc => exc.cls = "BaseException"
              /\ exit = IF exc = NoExc \/ exc.what = "SystemExit(0)" THEN <<0>>
                        ELSE IF exc.what = "SystemExit(3)" THEN <<3>>
                        ELSE <<1>>

\* main ran with an existing STC file, the pipeline failed inside and main
\* still ended with status 0
C7_Witness ==
    /\ args.entry = "main"
    /\ args.mode = "file"
    /\ args.isfile
    /\ pc = "done"
    /\ printed = 1
    /\ PipelineCalls[1].arg = StcFile
    /\ exit = <<0>>

\* ------------------------------------------------ properties: the namer
Has(s, tok) == Positions(s, tok) # {}

\* the entity of file name `name` that starts with tok: from tok to just
\* before the next "_" or ".", or to the end of the name
FileToken(name, tok) ==
    LET i     == Min(Positions(name, tok))
        stops == {j \in (i + 1)..Len(name) : name[j] \in {"_", "."}}
    IN SubSeq(name, i, IF stops = {} THEN Len(name) ELSE Min(stops) - 1)

\* the path <opath>/<sub>[/<ses>]
UnderOpath(opath, sub, ses) ==
    (IF opath[Len(opath)] = "/" THEN opath ELSE opath \o <<"/">>)
    \o sub \o (IF ses = None THEN <<>> ELSE <<"/">> \o ses)

FuncName == Basename(args.modf)

\* C3: for every functional file name holding a sub-XXX token, construction
\* succeeds, the subject is exactly that token, and the output directory is
\* <opath>/sub-XXX, followed by /ses-YYY for the file name's session token.
C3_SubjectToken ==
    (pc # "new" /\ Has(FuncName, "sub-")) =>
        /\ pc = "ready"
        /\ namer.sub = FileToken(FuncName, "sub-")
        /\ \/ get_outdir(namer) =
                UnderOpath(args.opath, FileToken(FuncName, "sub-"), None)
           \/ /\ Has(FuncName, "ses-")
              /\ get_outdir(namer) =
                   UnderOpath(args.opath, FileToken(FuncName, "sub-"),
                              FileToken(FuncName, "ses-"))

\* C4: a file name without ses- token gives a None session and the output
\* directory <opath>/<sub>; a file name with the token ses-YYY gives the
\* output directory <opath>/<sub>/ses-YYY.
C4_Session ==
    pc = "ready" =>
        IF Has(FuncName, "ses-")
        THEN get_outdir(namer) =
                UnderOpath(args.opath, namer.sub, FileToken(FuncName, "ses-"))
        ELSE /\ namer.ses = None
             /\ get_outdir(namer) = UnderOpath(args.opath, namer.sub, None)

\* v is "label-" followed by the longest start of label's base name that
\* holds none of the atoms of stop, the base name being what follows the
\* last "/" of label
IsLabelUpTo(v, label, stop) ==
    \E b \in 0..Len(label), n \in 0..Len(label) :
        /\ b + n <= Len(label)
        /\ b = 0 \/ label[b] = "/"
        /\ \A i \in (b + 1)..Len(label) : label[i] # "/"
        /\ \A i \in (b + 1)..(b + n) : label[i] \notin stop
        /\ b + n = Len(label) \/ label[b + n + 1] \in stop
        /\ v = <<"label-">> \o SubSeq(label, b + 1, b + n)

\* C5 as stated: get_label returns "label-" and the base name of the label
\* file without its extensions, nothing else removed.
C5_AsStated ==
    ret.m = "get_label" => IsLabelUpTo(ret.v, ret.arg, {"."})

\* C5: get_label returns "label-" followed by the part of the label file's
\* base name that precedes its first "." or "_".
C5_GetLabel ==
    ret.m = "get_label" => IsLabelUpTo(ret.v, ret.arg, {".", "_"})

C5_Witness ==
    /\ ret.m = "get_label"
    /\ ret.arg = <<"/", "atlas", "/", "aal", "_", "res-", "2mm">> \o Ext
    /\ ret.v = <<"label-", "aal">>

\* C9 (its first half): a functional file name without run- token leaves
\* the run field None, a template file name without res- token leaves the
\* resolution field None, and get_template_space still returns a string.
C9_OptionalTokens ==
    pc = "ready" =>
        /\ ~Has(FuncName, "run-") => namer.run = None
        /\ ~Has(Basename(args.tempf), "res-") => namer.res = None
        /\ get_template_space(namer) \in Seq(STRING)

\* ------------------------------------------ properties: add_dirs, mutation
SameLabels(a, b) == a.list = b.list /\ a.v = b.v

\* C6: a later add_dirs call with the same arguments as an earlier one on
\* the same instance leaves self.dirs as the earlier call left it and asks
\* mkdir for the same directories, each as often as before.
C6_AddDirsIdempotent ==
    \A i \in DOMAIN addlog : \A j \in DOMAIN addlog :
        (i < j /\ SameLabels(addlog[i].labels, addlog[j].labels)) =>
            /\ addlog[j].dirs = addlog[i].dirs
            /\ addlog[j].newdirs = addlog[i].newdirs
            /\ shell[j].argv = shell[i].argv
            /\ j = Len(addlog) => namer.dirs = addlog[i].dirs

\* add_dirs was called twice with one label that is not in a list
C6_Witness ==
    /\ Len(addlog) >= 2
    /\ ~addlog[1].labels.list
    /\ SameLabels(addlog[1].labels, addlog[2].labels)
    /\ Len(addlog[2].newdirs) > 0

\* C10: once the instance exists, no method call changes a field set by
\* __init__, so get_outdir, get_mod_source, get_anat_source and
\* get_template_space return after the call what they returned before it.
C10_NoMutation ==
    [][pc = "ready" =>
          /\ Fields(namer') = Fields(namer)
          /\ get_outdir(namer') = get_outdir(namer)
          /\ get_mod_source(namer') = get_mod_source(namer)
          /\ get_anat_source(namer') = get_anat_source(namer)
          /\ get_template_space(namer') = get_template_space(namer)]_vars

\* get_outdir was called after add_dirs and returned what _get_outdir gave
\* the constructor
C10_Witness ==
    /\ pc = "ready"
    /\ Len(addlog) >= 1
    /\ ret.m = "get_outdir"
    /\ ret.v = _get_outdir(args.opath, namer.sub, namer.ses)

\* -------------------------------------------- properties: shell commands
Copies == SelectSeq(shell, LAMBDA c : c.cmd # "mkdir -p")

\* C8: no caller looks at a command's status or repeats a command:
\* s3_push_data issues one copy and returns; s3_get_data, past the bucket
\* check, issues the copy once and returns, after the mkdir when subj is
\* given and whatever the mkdir's status; add_dirs returns normally
\* whatever the status of its mkdir.
C8_ShellUnchecked ==
    /\ (args.fn = "push" /\ pc = "done") =>
          /\ Len(shell) = 1
          /\ Len(Copies) = 1
          /\ exc = NoExc
    /\ (args.fn = "get" /\ pc = "done"
        /\ ~s3_get_stops(args.bucket, args.public, args.bkts)) =>
          /\ Len(Copies) = 1
          /\ shell[Len(shell)].argv[2] = locals[3]
          /\ Len(shell) = IF args.subj # None THEN 2 ELSE 1
          /\ args.subj # None => shell[1].cmd = "mkdir -p"
          /\ exc = NoExc
    /\ args.fn = "get" => Len(Copies) <= 1
    /\ args.fn = "add_dirs" =>
          /\ Len(shell) = Len(addlog)
          /\ Len(shell) = ncalls
          /\ exc.what \in {"none", "AttributeError"}
          /\ pc = "ready" => exc = NoExc

\* s3_get_data with a subject: the mkdir failed and the copy was issued
C8_Witness ==
    /\ args.fn = "get"
    /\ pc = "done"
    /\ Len(shell) = 2
    /\ shell[1].cmd = "mkdir -p"
    /\ shell[1].status = 1
    /\ shell[2].status = 1
    /\ shell[2].argv[2] = <<"/", "in", "/", "sub-", "01">>

\* ------------------------------- properties: the worker's cleanup and paths
\* every call of WorkerCalls was made and returned normally
WorkerRanAll ==
    /\ Len(trace) > Len(WorkerCalls)
    /\ \A k \in 1..Len(WorkerCalls) : trace[k + 1].out = "ok"

\* the derivative names exist from the first call of WorkerCalls on
NamesReady == Len(trace) >= 2 /\ trace[2].call = "qa_func"

Removals == SelectSeq(shell, LAMBDA c : c.cmd = "rm -rf")

CleanedDirs == <<"prep_f", "prep_a", "reg_f", "reg_a", "nuis_f", "nuis_a">>

\* C11: a run of the worker whose calls all returned normally has, when it
\* is over, saved the QA statistics and then issued one removal command: it
\* names the temporary base directory, followed, when clean is set, by the
\* output directories of prep_f, prep_a, reg_f, reg_a, nuis_f and nuis_a,
\* and by nothing else when clean is not set.
C11_Cleanup ==
    (pc = "done" /\ WorkerRanAll) =>
        /\ \E i \in DOMAIN trace : trace[i].stage = "qa_save"
        /\ Len(Removals) = 1
        /\ shell[Len(shell)].cmd = "rm -rf"
        /\ Removals[1].argv =
              <<DirAt(namer.dirs, "tmp", "base", None)>> \o
              (IF args.w.clean
               THEN [i \in 1..Len(CleanedDirs) |->
                        DirAt(namer.dirs, "output", CleanedDirs[i], None)]
               ELSE <<>>)

\* path p names a file inside directory d
LiesIn(p, d) ==
    /\ Len(p) > Len(d) + 1
    /\ SubSeq(p, 1, Len(d)) = d
    /\ p[Len(d) + 1] = "/"

\* the calls of a given name made before position i of the trace
Before(i, name) == {j \in 1..(i - 1) : trace[j].call = name}

\* the outputs of preprocessing are the inputs of registration, those of
\* registration the inputs of nuisance correction, and the output of
\* nuisance correction the input of the voxel timeseries
C12_StagesChained ==
    \A i \in DOMAIN trace :
        /\ trace[i].call = "mgreg" =>
              /\ \E j \in Before(i, "mgfp") : trace[j].arg[2] = trace[i].arg[1]
              /\ \E j \in Before(i, "mgap") : trace[j].arg[2] = trace[i].arg[3]
        /\ trace[i].call = "mgn" =>
              \E j \in Before(i, "mgreg") :
                  /\ trace[j].arg[7] = trace[i].arg[1]
                  /\ trace[j].arg[8] = trace[i].arg[2]
        /\ trace[i].call = "mgts.voxel_timeseries" =>
              \E j \in Before(i, "mgn") : trace[j].arg[3] = trace[i].arg[1]

\* one ROI-timeseries path and one connectome path per label, the i-th of
\* each in the directory keyed by get_label of the i-th label
C12_NamesPaired ==
    NamesReady =>
        /\ Len(locals.labels) = Len(AsLabelList(args.labels))
        /\ Len(locals.roi_ts) = Len(locals.labels)
        /\ Len(locals.connectomes) = Len(locals.labels)
        /\ \A i \in 1..Len(locals.labels) :
              /\ LiesIn(locals.roi_ts[i],
                        DirAt(namer.dirs, "output", "ts_roi",
                              get_label(locals.labels[i])))
              /\ LiesIn(locals.connectomes[i],
                        DirAt(namer.dirs, "output", "conn",
                              get_label(locals.labels[i])))

\* every label has had its ROI timeseries extracted from the
\* nuisance-corrected image into its own path, and its connectome saved
C12_RoiCalls ==
    (pc = "done" /\ WorkerRanAll) =>
        \A i \in 1..Len(locals.labels) :
            /\ \E k \in DOMAIN trace :
                  /\ trace[k].call = "mgts.roi_timeseries"
                  /\ trace[k].arg = <<locals.nuis_func, locals.labels[i],
                                      locals.roi_ts[i]>>
            /\ \E k \in DOMAIN trace :
                  /\ trace[k].call = "connectome.save_graph"
                  /\ trace[k].arg = <<locals.connectomes[i]>>

\* C12: each stage's output paths are the next stage's inputs, from
\* preprocessing through registration and nuisance correction to the voxel
\* and the ROI timeseries, and the i-th label goes with the i-th
\* ROI-timeseries path and the i-th connectome path, both in the directory
\* keyed by get_label of that label.
C12_DataFlow ==
    /\ C12_StagesChained
    /\ C12_NamesPaired
    /\ C12_RoiCalls

\* ----------------------------------------- properties: sweep_directory
SweepOver == args.fn = "sweep" /\ pc \in {"done", "raised"}

\* for 'dwi' and 'func' the lists are returned, all of one length
C13_ListsReturned ==
    (SweepOver /\ args.modality \in {"dwi", "func"}) =>
        /\ pc = "done"
        /\ exc = NoExc
        /\ Len(ret.v) = IF args.modality = "dwi" THEN 4 ELSE 2
        /\ \A i \in 1..Len(ret.v) : Len(ret.v[i]) = Len(ret.v[1])

\* for another modality nothing is returned; ValueError is raised when no
\* subject is visited, and UnboundLocalError in the first iteration otherwise
C13_OtherModality ==
    (SweepOver /\ args.modality \notin {"dwi", "func"}) =>
        /\ pc = "raised"
        /\ ret = NoRet
        /\ exc.what = IF locals.subjs = <<>> THEN "ValueError"
                      ELSE "UnboundLocalError"

\* C13: when sweep_directory is over, for 'dwi' it has returned the four
\* lists (dwis, bvals, bvecs, anats), for 'func' the two lists (funcs,
\* anats), and for any other modality it has returned nothing and raised
\* ValueError, whatever the directory holds.
C13_SweepModality ==
    SweepOver =>
        IF args.modality = "dwi"
        THEN /\ pc = "done"
             /\ ret.v = <<locals.lists.dwis, locals.lists.bvals,
                          locals.lists.bvecs, locals.lists.anats>>
        ELSE IF args.modality = "func"
        THEN /\ pc = "done"
             /\ ret.v = <<locals.lists.funcs, locals.lists.anats>>
        ELSE /\ pc = "raised"
             /\ ret = NoRet
             /\ exc.what = "ValueError"

====
